---- MODULE Spec2Model ----
(***************************************************************************)
(* The Buyer side of the MWC/BTC atomic swap (libwallet/src/swap/buyer.rs) *)
(* as a state machine over one Swap record.                                *)
(*                                                                         *)
(* Amounts are counted in units of the base fee.  u64 and i64 values keep  *)
(* a width of U64Bits bits: an arithmetic overflow panics when the binary  *)
(* is built with overflow checks (debug profile) and wraps otherwise       *)
(* (release profile); env.overflow_checks is the profile of the binary.    *)
(*                                                                         *)
(* The keychain and the Context of a trade are fixed for the trade (the    *)
(* wallet stores one Context per swap), so a key derivation or signing     *)
(* primitive called twice on the same inputs gives the same outcome:       *)
(* env.ctx.bad names the primitive that fails for this keychain, Context   *)
(* and offer data, if any.  Node calls may fail on every call.             *)
(***************************************************************************)
EXTENDS Integers, Sequences, FiniteSets, TLC

VARIABLES
    swap,   \* the Swap record of the trade, or NoSwap
    pre,    \* the value of swap when the last call was made
    last,   \* the last call: [op, res]
    args,   \* the arguments of the last call
    env,    \* the wallet: [ctx, overflow_checks, network]
    file    \* what the file of a PathToSlate holds

vars == <<swap, pre, last, args, env, file>>

(***************************************************************************)
(* Bounds                                                                  *)
(***************************************************************************)
U64Bits == 16
\* init_redeem is not called again once the redeem transaction has this many
\* inputs
MaxTxInputs == 2
\* The order of the group the signature scalars are counted in
GroupOrder == 11

CURRENT_VERSION == 1

(***************************************************************************)
(* Integer arithmetic of the width of the model                            *)
(***************************************************************************)
U64Mod == 2 ^ U64Bits
U64Max == U64Mod - 1
I64Max == (U64Mod \div 2) - 1
I64Min == 0 - (U64Mod \div 2)

WrapU(x) == x % U64Mod
WrapI(x) == ((x + (U64Mod \div 2)) % U64Mod) - (U64Mod \div 2)
FitsU(x) == x >= 0 /\ x <= U64Max
FitsI(x) == x >= I64Min /\ x <= I64Max
\* `x as i64` of a u64 x
AsI64(x) == IF x > I64Max THEN x - U64Mod ELSE x
Max(a, b) == IF a >= b THEN a ELSE b
AbsInt(x) == IF x < 0 THEN 0 - x ELSE x
\* u64::saturating_sub
SaturatingSub(a, b) == IF a >= b THEN a - b ELSE 0

(***************************************************************************)
(* Option and Result values                                                *)
(***************************************************************************)
None == [some |-> FALSE]
Some(x) == [some |-> TRUE, v |-> x]

Ok == [ok |-> TRUE, kind |-> "Ok", reason |-> ""]
OkAction(a) == [ok |-> TRUE, kind |-> "Ok", reason |-> a]
Err(kind, reason) == [ok |-> FALSE, kind |-> kind, reason |-> reason]
Panic(reason) == [ok |-> FALSE, kind |-> "Panic", reason |-> reason]
\* What a function returns: its Result and the swap it leaves behind
Ret(res, s) == [res |-> res, swap |-> s]

NoSwap == [role |-> "NoSwap"]
NoArgs == [none |-> TRUE]
\* A path at which no file exists
NoFile == [tag |-> "NoFile"]

(***************************************************************************)
(* Status                                                                  *)
(***************************************************************************)
Statuses ==
    <<"Created", "Offered", "Accepted", "Locked", "InitRedeem", "Redeem",
      "Completed", "Refunded", "Cancelled">>

Rank(st) == CHOOSE i \in 1..Len(Statuses) : Statuses[i] = st

\* grin_core::libtx::tx_fee with the default base fee as the unit
tx_fee(inputs, outputs, kernels) ==
    LET w == (4 * outputs) + kernels - inputs
    IN  IF w < 1 THEN 1 ELSE w

(***************************************************************************)
(* Slates.  A slate carries its participant entries, the numbers of inputs *)
(* and outputs of its transaction and the kernels of the transaction.      *)
(***************************************************************************)
\* A participant entry: its id, whether it holds a partial signature, its
\* public nonce, and whether its data verifies
Participant(id, sig, nonce, valid) ==
    [id |-> id, part_sig |-> sig, nonce |-> nonce, valid |-> valid]

\* Slate::blank(num_participants)
BlankSlate(n) ==
    [amount |-> 0, fee |-> 0, height |-> 0, lock_height |-> 0,
     num_participants |-> n, participant_data |-> <<>>,
     inputs |-> 0, outputs |-> 0, kernels |-> <<>>,
     offset |-> 0, finalized |-> FALSE]

\* Slate::fill_round_1: the slate takes the caller's entry, without its
\* partial signature
fill_round_1(slate, id) ==
    [slate EXCEPT !.participant_data = Append(@, Participant(id, FALSE, 0, TRUE))]

\* Slate::fill_round_2: the caller's entry takes its partial signature
fill_round_2(slate, id) ==
    [slate EXCEPT !.participant_data =
        [i \in DOMAIN @ |->
            IF @[i].id = id THEN [@[i] EXCEPT !.part_sig = TRUE] ELSE @[i]]]

\* swap::tx_add_input, swap::tx_add_output
tx_add_input(slate) == [slate EXCEPT !.inputs = @ + 1]
tx_add_output(slate) == [slate EXCEPT !.outputs = @ + 1]

\* The primitive env.ctx.bad fails for the keychain, Context and offer data
\* of the trade
Fails(e, primitive) == e.ctx.bad = primitive

(***************************************************************************)
(* BuyApi::sign_lock_slate, BuyApi::sign_refund_slate                      *)
(***************************************************************************)
sign_lock_slate(s, e) ==
    IF Fails(e, "lock_tx_secret") THEN Ret(Err("Keychain", "lock_tx_secret"), s)
    ELSE IF Len(s.lock_slate.participant_data) > 1
    THEN Ret(Err("OneShot",
        "Buyer Fn sign_lock_slate(), lock slate participant data is already initialized"), s)
    ELSE IF Fails(e, "multisig_commit") THEN Ret(Err("Multisig", "commit"), s)
    ELSE
      LET s1 == [s EXCEPT !.lock_slate = tx_add_output(@)]
          s2 == [s1 EXCEPT !.lock_slate = fill_round_1(@, s.participant_id)]
          s3 == [s2 EXCEPT !.lock_slate = fill_round_2(@, s.participant_id)]
      IN  IF Fails(e, "lock_fill_round_1") THEN Ret(Err("LibWallet", "fill_round_1"), s1)
          ELSE IF Fails(e, "lock_fill_round_2") THEN Ret(Err("LibWallet", "fill_round_2"), s2)
          ELSE Ret(Ok, s3)

sign_refund_slate(s, e) ==
    IF Fails(e, "multisig_commit") THEN Ret(Err("Multisig", "commit"), s)
    ELSE IF Fails(e, "refund_tx_secret") THEN Ret(Err("Keychain", "refund_tx_secret"), s)
    ELSE IF Len(s.refund_slate.participant_data) > 1
    THEN Ret(Err("OneShot",
        "Buyer Fn sign_refund_slate(), refund slate participant data is already initialized"), s)
    ELSE
      LET s1 == [s EXCEPT !.refund_slate = tx_add_input(@)]
          s2 == [s1 EXCEPT !.refund_slate = fill_round_1(@, s.participant_id)]
          s3 == [s2 EXCEPT !.refund_slate = fill_round_2(@, s.participant_id)]
      IN  IF Fails(e, "refund_fill_round_1") THEN Ret(Err("LibWallet", "fill_round_1"), s1)
          ELSE IF Fails(e, "refund_fill_round_2") THEN Ret(Err("LibWallet", "fill_round_2"), s2)
          ELSE Ret(Ok, s3)

\* BuyApi::build_multisig: the Seller's multisig participant is imported and
\* both rounds are run
build_multisig(s, e, part) ==
    IF Fails(e, "multisig_secret") THEN Ret(Err("Keychain", "multisig_secret"), s)
    ELSE IF ~part.valid THEN Ret(Err("Multisig", "import_participant"), s)
    ELSE IF Fails(e, "multisig_round") THEN Ret(Err("Multisig", "round"), s)
    ELSE Ret(Ok, [s EXCEPT !.multisig = "round_2"])

(***************************************************************************)
(* BuyApi::accept_swap_offer.  a = [offer, secondary, node, now] are the   *)
(* OfferUpdate, the SecondaryUpdate, what the node answers and the clock.  *)
(* OfferChecks lists, in the order of the source, every point where the    *)
(* function leaves early: a check that fails, a call that returns an       *)
(* error, an arithmetic overflow in a binary built with overflow checks.   *)
(* The values a check compares are the wrapped ones.                       *)
(***************************************************************************)
Check(hit, res) == [hit |-> hit, res |-> res]
InvalidMessageData(reason) == Err("InvalidMessageData", reason)
Overflow(e, fits) == Check(e.overflow_checks /\ ~fits, Panic("arithmetic overflow"))

\* lines 156-157
MinBlockHeightConfX(o) ==
    o.required_mwc_lock_confirmations + o.required_mwc_lock_confirmations + 10
\* lines 164-167
MinBlockHeightTimeSubX(o) == (o.mwc_lock_time_seconds \div 60) - 10
MinBlockHeightTime(o) ==
    Max((o.mwc_lock_time_seconds \div 2) \div 60, WrapU(MinBlockHeightTimeSubX(o)))
\* line 197
RefundSumX(o) == o.refund_slate.amount + o.refund_slate.fee

\* lines 223-227: every intermediate value of the comparison of the lock times
LockTimeValues(a) ==
    LET o == a.offer
        diffX == o.refund_slate.lock_height - a.node.tip
        blocks == AsI64(WrapU(diffX))
        secsX == blocks * 60
        mwcX == a.now + WrapI(secsX)
        expX == WrapI(mwcX) + AsI64(o.seller_redeem_time)
        devX == AsI64(a.secondary.lock_time) - WrapI(expX)
        dev == WrapI(devX)
    IN  [diffX |-> diffX, secsX |-> secsX, mwcX |-> mwcX, expX |-> expX,
         devX |-> devX,
         \* i64::abs overflows on i64::MIN and then returns it
         absFits |-> dev # I64Min,
         abs |-> IF dev = I64Min THEN I64Min ELSE AbsInt(dev),
         tolerance |-> AsI64(o.seller_redeem_time \div 20)]

OfferChecks(a, e) ==
    LET o == a.offer
        lock == o.lock_slate
        refund == o.refund_slate
        height == a.node.tip
        lt == LockTimeValues(a)
    IN
    << Check(o.version # CURRENT_VERSION, Err("IncompatibleVersion", "")),
       Check(o.network # e.network,
             Err("UnexpectedNetwork", ", get offer for wrong network")),
       Check(e.ctx.kind # "Buyer", Err("UnexpectedRole", "unwrap_buyer")),
       Check(o.start_time > a.now + 15,
             InvalidMessageData("Buyer/Seller clock are out of sync")),
       Check(lock.lock_height > 0, Err("InvalidLockHeightLockTx", "")),
       Check(lock.amount # o.primary_amount,
             InvalidMessageData("Lock Slate amount doesn't match offer")),
       Check(lock.fee # tx_fee(lock.inputs, lock.outputs + 1, 1),
             InvalidMessageData("Lock Slate fee doesn't match expected value")),
       Check(lock.num_participants # 2,
             InvalidMessageData("Lock Slate participans doesn't match expected value")),
       Check(Len(lock.kernels) # 1, InvalidMessageData("Lock Slate invalid kernels")),
       Check(Len(lock.kernels) = 1 /\ lock.kernels[1].features = "Plain"
                /\ lock.kernels[1].fee # lock.fee,
             InvalidMessageData("Lock Slate invalid kernel fee")),
       Check(Len(lock.kernels) = 1 /\ lock.kernels[1].features # "Plain",
             InvalidMessageData("Lock Slate invalid kernel feature")),
       Check(lock.inputs = 0, InvalidMessageData("Lock Slate empty inputs")),
       Check(a.node.fail = "get_outputs_from_node", Err("Node", "get_outputs_from_node")),
       Check(a.node.found # lock.inputs,
             InvalidMessageData("Lock Slate inputs are not found at the chain")),
       Check(a.node.fail = "get_chain_tip", Err("Node", "get_chain_tip")),
       Check(lock.height > height, InvalidMessageData("Lock Slate height is invalid")),
       Overflow(e, FitsU(MinBlockHeightConfX(o))),
       Overflow(e, FitsU(height + WrapU(MinBlockHeightConfX(o)))),
       Check(refund.lock_height < WrapU(height + WrapU(MinBlockHeightConfX(o))),
             InvalidMessageData(
                "Refund lock slate doesn't meet required number of confirmations")),
       Overflow(e, FitsU(MinBlockHeightTimeSubX(o))),
       Overflow(e, FitsU(height + MinBlockHeightTime(o))),
       Check(refund.lock_height < WrapU(height + MinBlockHeightTime(o)),
             InvalidMessageData("Refund lock slate doesn't meet required mwc_lock_time")),
       Check(Len(refund.kernels) # 1, InvalidMessageData("Refund Slate invalid kernel")),
       Check(Len(refund.kernels) = 1 /\ refund.kernels[1].features = "HeightLocked"
                /\ (refund.kernels[1].fee # refund.fee
                    \/ refund.kernels[1].lock_height # refund.lock_height),
             InvalidMessageData("Refund Slate invalid kernel fee or height")),
       Check(Len(refund.kernels) = 1 /\ refund.kernels[1].features # "HeightLocked",
             InvalidMessageData("Refund Slate invalid kernel feature")),
       Check(refund.num_participants # 2,
             InvalidMessageData("Refund Slate participans doesn't match expected value")),
       Overflow(e, FitsU(RefundSumX(o))),
       Check(WrapU(RefundSumX(o)) # lock.amount,
             InvalidMessageData("Refund Slate amount doesn't match offer")),
       Check(refund.fee # tx_fee(1, 1, 1),
             InvalidMessageData("Refund Slate fee doesn't match expected value")),
       Check(o.secondary_currency # "Btc", InvalidMessageData("Unexpected currency value")),
       Check(a.secondary.kind # "BtcOffer", Err("UnexpectedMessageType", "unwrap_offer")),
       Overflow(e, FitsU(lt.diffX)),
       Overflow(e, FitsI(lt.secsX)),
       Overflow(e, FitsI(lt.mwcX)),
       Overflow(e, FitsI(lt.expX)),
       Overflow(e, FitsI(lt.devX)),
       Overflow(e, lt.absFits),
       Check(lt.abs > lt.tolerance,
             InvalidMessageData("Secondary lock time is different from the expected")) >>

\* The last point of a list of checks that is hit: what FirstHit would be if
\* a later check took precedence over an earlier one
LastHit(checks) ==
    IF \E i \in DOMAIN checks : checks[i].hit
    THEN CHOOSE i \in DOMAIN checks :
            checks[i].hit /\ \A j \in DOMAIN checks : j > i => ~checks[j].hit
    ELSE 0

\* The first point of a list of checks that is hit, 0 when none is
FirstHit(checks) ==
    IF \E i \in DOMAIN checks : checks[i].hit
    THEN CHOOSE i \in DOMAIN checks :
            checks[i].hit /\ \A j \in DOMAIN checks : j < i => ~checks[j].hit
    ELSE 0

\* lines 234-288: the Swap of an offer that passed the checks
NewBuyerSwap(a, e) ==
    LET o == a.offer
        fee == tx_fee(1, 1, 1)
    IN  [role |-> "Buyer",
         status |-> "Offered",
         version |-> CURRENT_VERSION,
         network |-> o.network,
         participant_id |-> 1,
         primary_amount |-> o.primary_amount,
         secondary_currency |-> o.secondary_currency,
         secondary_lock_time |-> a.secondary.lock_time,
         redeem_public |-> None,
         multisig |-> "new",
         lock_slate |-> o.lock_slate,
         lock_confirmations |-> None,
         refund_slate |-> o.refund_slate,
         redeem_slate |->
            [BlankSlate(2) EXCEPT
                !.fee = fee,
                !.height = a.node.tip,
                !.amount = SaturatingSub(o.primary_amount, fee),
                !.participant_data = <<o.redeem_participant>>],
         redeem_confirmations |-> None,
         adaptor_signature |-> None,
         required_mwc_lock_confirmations |-> o.required_mwc_lock_confirmations,
         mwc_lock_time_seconds |-> o.mwc_lock_time_seconds,
         seller_redeem_time |-> o.seller_redeem_time]

\* BuyApi::redeem_secret and the public key of a secret
redeem_secret(e) == e.ctx.redeem
PublicKey(secret) == [public_of |-> secret]

\* accept_swap_offer as it would be if a rejected offer left its swap behind
accept_swap_offer_keeps_swap(a, e) ==
    LET checks == OfferChecks(a, e)
        hit == FirstHit(checks)
        s0 == [NewBuyerSwap(a, e) EXCEPT !.redeem_public = Some(PublicKey(redeem_secret(e)))]
        m == build_multisig(s0, e, a.offer.multisig)
        l == sign_lock_slate(m.swap, e)
        r == sign_refund_slate(l.swap, e)
    IN  IF hit # 0 THEN Ret(checks[hit].res, s0)
        ELSE IF Fails(e, "redeem_secret") THEN Ret(Err("Keychain", "redeem_secret"), NoSwap)
        ELSE IF ~m.res.ok THEN Ret(m.res, NoSwap)
        ELSE IF ~l.res.ok THEN Ret(l.res, NoSwap)
        ELSE IF ~r.res.ok THEN Ret(r.res, NoSwap)
        ELSE r

\* accept_swap_offer as it would be without the public key of the redeem
\* secret
accept_swap_offer_without_redeem_public(a, e) ==
    LET checks == OfferChecks(a, e)
        hit == FirstHit(checks)
        s0 == NewBuyerSwap(a, e)
        m == build_multisig(s0, e, a.offer.multisig)
        l == sign_lock_slate(m.swap, e)
        r == sign_refund_slate(l.swap, e)
    IN  IF hit # 0 THEN Ret(checks[hit].res, NoSwap)
        ELSE IF Fails(e, "redeem_secret") THEN Ret(Err("Keychain", "redeem_secret"), NoSwap)
        ELSE IF ~m.res.ok THEN Ret(m.res, NoSwap)
        ELSE IF ~l.res.ok THEN Ret(l.res, NoSwap)
        ELSE IF ~r.res.ok THEN Ret(r.res, NoSwap)
        ELSE r

accept_swap_offer(a, e) ==
    LET checks == OfferChecks(a, e)
        hit == FirstHit(checks)
        s0 == [NewBuyerSwap(a, e) EXCEPT !.redeem_public = Some(PublicKey(redeem_secret(e)))]
        m == build_multisig(s0, e, a.offer.multisig)
        l == sign_lock_slate(m.swap, e)
        r == sign_refund_slate(l.swap, e)
    IN  IF hit # 0 THEN Ret(checks[hit].res, NoSwap)
        ELSE IF Fails(e, "redeem_secret") THEN Ret(Err("Keychain", "redeem_secret"), NoSwap)
        ELSE IF ~m.res.ok THEN Ret(m.res, NoSwap)
        ELSE IF ~l.res.ok THEN Ret(l.res, NoSwap)
        ELSE IF ~r.res.ok THEN Ret(r.res, NoSwap)
        ELSE r

(***************************************************************************)
(* Swap::expect_buyer, Swap::expect, Swap::other_participant_id            *)
(***************************************************************************)
expect_buyer(s) ==
    IF s.role = "Buyer" THEN Ok ELSE Err("UnexpectedRole", "Swap call")
expect(s, status) ==
    IF s.status = status THEN Ok ELSE Err("UnexpectedStatus", status)
other_participant_id(s) == 1 - s.participant_id

(***************************************************************************)
(* BuyApi::build_redeem_slate.  offset is the offset thread_rng draws.     *)
(***************************************************************************)
\* build_redeem_slate as it would be if its guard let a slate with two
\* entries through
build_redeem_slate_late_guard(s, e, offset) ==
    LET fee == tx_fee(1, 1, 1)
        amountX == s.primary_amount - fee
        s1 == [s EXCEPT !.redeem_slate.fee = fee]
        s2 == [s1 EXCEPT !.redeem_slate.amount = WrapU(amountX)]
        s3 == [s2 EXCEPT !.redeem_slate = tx_add_output(@)]
        s4 == [s3 EXCEPT !.redeem_slate.offset = offset]
        s5 == [s4 EXCEPT !.redeem_slate = tx_add_input(@)]
        s6 == [s5 EXCEPT !.redeem_slate = fill_round_1(@, s.participant_id)]
    IN  IF e.ctx.kind # "Buyer" THEN Ret(Err("UnexpectedRole", "unwrap_buyer"), s)
        ELSE IF Len(s.redeem_slate.participant_data) > 2
        THEN Ret(Err("OneShot",
            "Buyer Fn build_redeem_slate(), redeem slate participant data is not empty"), s)
        ELSE IF e.overflow_checks /\ ~FitsU(amountX)
        THEN Ret(Panic("arithmetic overflow"), s1)
        ELSE IF Fails(e, "add_transaction_elements")
        THEN Ret(Err("LibWallet", "add_transaction_elements"), s2)
        ELSE IF Fails(e, "multisig_commit") THEN Ret(Err("Multisig", "commit"), s4)
        ELSE IF Fails(e, "redeem_tx_secret") THEN Ret(Err("Keychain", "redeem_tx_secret"), s5)
        ELSE IF Fails(e, "redeem_fill_round_1")
        THEN Ret(Err("LibWallet", "fill_round_1"), s5)
        ELSE Ret(Ok, s6)

build_redeem_slate(s, e, offset) ==
    LET fee == tx_fee(1, 1, 1)
        amountX == s.primary_amount - fee
        s1 == [s EXCEPT !.redeem_slate.fee = fee]
        s2 == [s1 EXCEPT !.redeem_slate.amount = WrapU(amountX)]
        s3 == [s2 EXCEPT !.redeem_slate = tx_add_output(@)]
        s4 == [s3 EXCEPT !.redeem_slate.offset = offset]
        s5 == [s4 EXCEPT !.redeem_slate = tx_add_input(@)]
        s6 == [s5 EXCEPT !.redeem_slate = fill_round_1(@, s.participant_id)]
    IN  IF e.ctx.kind # "Buyer" THEN Ret(Err("UnexpectedRole", "unwrap_buyer"), s)
        ELSE IF Len(s.redeem_slate.participant_data) > 1
        THEN Ret(Err("OneShot",
            "Buyer Fn build_redeem_slate(), redeem slate participant data is not empty"), s)
        ELSE IF e.overflow_checks /\ ~FitsU(amountX)
        THEN Ret(Panic("arithmetic overflow"), s1)
        ELSE IF Fails(e, "add_transaction_elements")
        THEN Ret(Err("LibWallet", "add_transaction_elements"), s2)
        ELSE IF Fails(e, "multisig_commit") THEN Ret(Err("Multisig", "commit"), s4)
        ELSE IF Fails(e, "redeem_tx_secret") THEN Ret(Err("Keychain", "redeem_tx_secret"), s5)
        ELSE IF Fails(e, "redeem_fill_round_1")
        THEN Ret(Err("LibWallet", "fill_round_1"), s5)
        ELSE Ret(Ok, s6)

(***************************************************************************)
(* BuyApi::calculate_adaptor_signature.  The signature is a function of    *)
(* the signing secret (amount, offset), the redeem nonce, the redeem       *)
(* secret and the fields of the redeem slate (the public nonces and        *)
(* excesses of its participants).                                          *)
(***************************************************************************)
redeem_tx_fields(slate) == [i \in DOMAIN slate.participant_data |->
                                slate.participant_data[i].nonce]

\* sign_single as it would be if the redeem secret were not added
sign_single_without_extra(e, s) ==
    [secret |-> <<s.redeem_slate.amount, s.redeem_slate.offset>>,
     nonce |-> e.ctx.redeem_nonce,
     extra |-> 0,
     fields |-> redeem_tx_fields(s.redeem_slate)]

sign_single(e, s) ==
    [secret |-> <<s.redeem_slate.amount, s.redeem_slate.offset>>,
     nonce |-> e.ctx.redeem_nonce,
     extra |-> redeem_secret(e),
     fields |-> redeem_tx_fields(s.redeem_slate)]

\* calculate_adaptor_signature as it would be without its guard
calculate_adaptor_signature_unguarded(s, e) ==
    IF Fails(e, "redeem_tx_secret") THEN Ret(Err("Keychain", "redeem_tx_secret"), s)
    ELSE IF Fails(e, "redeem_tx_fields") THEN Ret(Err("Secp", "redeem_tx_fields"), s)
    ELSE IF Fails(e, "redeem_secret") THEN Ret(Err("Keychain", "redeem_secret"), s)
    ELSE IF Fails(e, "sign_single") THEN Ret(Err("Secp", "sign_single"), s)
    ELSE Ret(Ok, [s EXCEPT !.adaptor_signature = Some(sign_single(e, s))])

calculate_adaptor_signature(s, e) ==
    IF s.adaptor_signature.some
    THEN Ret(Err("OneShot",
        "Buyer calculate_adaptor_signature(), miltisig is already initialized"), s)
    ELSE IF Fails(e, "redeem_tx_secret") THEN Ret(Err("Keychain", "redeem_tx_secret"), s)
    ELSE IF Fails(e, "redeem_tx_fields") THEN Ret(Err("Secp", "redeem_tx_fields"), s)
    ELSE IF Fails(e, "redeem_secret") THEN Ret(Err("Keychain", "redeem_secret"), s)
    ELSE IF Fails(e, "sign_single") THEN Ret(Err("Secp", "sign_single"), s)
    ELSE Ret(Ok, [s EXCEPT !.adaptor_signature = Some(sign_single(e, s))])

(***************************************************************************)
(* BuyApi::finalize_redeem_slate.  part is the Seller's entry of the       *)
(* RedeemUpdate; participant_data.get(i) is entry i + 1 of the sequence.   *)
(***************************************************************************)
\* finalize_redeem_slate as it would be if the Seller's entry were appended
\* instead of put in the place of the one of the offer
finalize_redeem_slate_appends(s, e, part) ==
    LET id == s.participant_id
        other_id == other_participant_id(s)
        pd == s.redeem_slate.participant_data
        s1 == [s EXCEPT !.redeem_slate.participant_data = Append(@, part)]
        s2 == [s1 EXCEPT !.redeem_slate = fill_round_2(@, id)]
        s3 == [s2 EXCEPT !.redeem_slate.finalized = TRUE]
    IN  IF Fails(e, "redeem_tx_secret") THEN Ret(Err("Keychain", "redeem_tx_secret"), s)
        ELSE IF Len(pd) < id + 1
        THEN Ret(Err("UnexpectedAction",
            "Buyer Fn finalize_redeem_slate() redeem slate participant data is not initialized for this party"), s)
        ELSE IF pd[id + 1].part_sig
        THEN Ret(Err("OneShot",
            "Buyer Fn finalize_redeem_slate() redeem slate is already initialized"), s)
        ELSE IF Len(pd) < other_id + 1
        THEN Ret(Err("UnexpectedAction",
            "Buyer Fn finalize_redeem_slate() redeem slate participant data is not initialized for other party"), s)
        ELSE IF ~part.valid THEN Ret(Err("LibWallet", "fill_round_2"), s1)
        ELSE IF ~part.part_sig THEN Ret(Err("LibWallet", "finalize"), s2)
        ELSE Ret(Ok, s3)

finalize_redeem_slate(s, e, part) ==
    LET id == s.participant_id
        other_id == other_participant_id(s)
        pd == s.redeem_slate.participant_data
        s1 == [s EXCEPT !.redeem_slate.participant_data[other_id + 1] = part]
        s2 == [s1 EXCEPT !.redeem_slate = fill_round_2(@, id)]
        s3 == [s2 EXCEPT !.redeem_slate.finalized = TRUE]
    IN  IF Fails(e, "redeem_tx_secret") THEN Ret(Err("Keychain", "redeem_tx_secret"), s)
        ELSE IF Len(pd) < id + 1
        THEN Ret(Err("UnexpectedAction",
            "Buyer Fn finalize_redeem_slate() redeem slate participant data is not initialized for this party"), s)
        ELSE IF pd[id + 1].part_sig
        THEN Ret(Err("OneShot",
            "Buyer Fn finalize_redeem_slate() redeem slate is already initialized"), s)
        ELSE IF Len(pd) < other_id + 1
        THEN Ret(Err("UnexpectedAction",
            "Buyer Fn finalize_redeem_slate() redeem slate participant data is not initialized for other party"), s)
        ELSE IF ~part.valid THEN Ret(Err("LibWallet", "fill_round_2"), s1)
        ELSE IF ~part.part_sig THEN Ret(Err("LibWallet", "finalize"), s2)
        ELSE Ret(Ok, s3)

(***************************************************************************)
(* The public calls of BuyApi                                              *)
(***************************************************************************)
init_redeem(s, e, offset) ==
    IF ~expect_buyer(s).ok THEN Ret(expect_buyer(s), s)
    ELSE IF ~expect(s, "Locked").ok THEN Ret(expect(s, "Locked"), s)
    ELSE LET b == build_redeem_slate(s, e, offset)
         IN  IF ~b.res.ok THEN b ELSE calculate_adaptor_signature(b.swap, e)

redeem(s, e, part) ==
    IF ~expect_buyer(s).ok THEN Ret(expect_buyer(s), s)
    ELSE IF ~expect(s, "InitRedeem").ok THEN Ret(expect(s, "InitRedeem"), s)
    ELSE LET f == finalize_redeem_slate(s, e, part)
         IN  IF ~f.res.ok THEN f ELSE Ret(Ok, [f.swap EXCEPT !.status = "Redeem"])

\* completed as it would be if it wrote the status Redeem back
completed_back_to_redeem(s) ==
    IF ~expect_buyer(s).ok THEN Ret(expect_buyer(s), s)
    ELSE IF ~(s.status = "Redeem" \/ s.status = "Completed")
    THEN Ret(Err("UnexpectedStatus", "Redeem"), s)
    ELSE IF s.redeem_confirmations.some /\ s.redeem_confirmations.v > 0
    THEN Ret(Ok, [s EXCEPT !.status = "Redeem"])
    ELSE Ret(Err("UnexpectedAction",
            "Buyer Fn complete(), redeem_confirmations is not defined"), s)

completed(s) ==
    IF ~expect_buyer(s).ok THEN Ret(expect_buyer(s), s)
    ELSE IF ~(s.status = "Redeem" \/ s.status = "Completed")
    THEN Ret(Err("UnexpectedStatus", "Redeem"), s)
    ELSE IF s.redeem_confirmations.some /\ s.redeem_confirmations.v > 0
    THEN Ret(Ok, [s EXCEPT !.status = "Completed"])
    ELSE Ret(Err("UnexpectedAction",
            "Buyer Fn complete(), redeem_confirmations is not defined"), s)

accept_offer_message(s, e) ==
    IF ~expect(s, "Offered").ok THEN Ret(expect(s, "Offered"), s)
    ELSE IF Fails(e, "multisig_export") THEN Ret(Err("Multisig", "export"), s)
    ELSE IF ~s.redeem_public.some THEN Ret(Panic("unwrap on None"), s)
    ELSE IF Len(s.lock_slate.participant_data) < s.participant_id + 1
            \/ Len(s.refund_slate.participant_data) < s.participant_id + 1
    THEN Ret(Panic("index out of bounds"), s)
    ELSE Ret(OkAction("AcceptOffer"), s)

init_redeem_message(s) ==
    IF ~expect(s, "Locked").ok THEN Ret(expect(s, "Locked"), s)
    ELSE IF ~s.adaptor_signature.some
    THEN Ret(Err("UnexpectedAction",
            "Buyer Fn init_redeem_message(), multisig is empty"), s)
    ELSE Ret(OkAction("InitRedeem"), s)

message(s, e) ==
    IF s.status = "Offered" THEN accept_offer_message(s, e)
    ELSE IF s.status = "Locked" THEN init_redeem_message(s)
    ELSE Ret(Err("UnexpectedAction", "Buyer Fn message(), unexpected status"), s)

\* message_sent as it would be if it acknowledged message 1 without moving on
message_sent_stays_offered(s) ==
    IF s.status = "Offered" THEN Ret(Ok, s)
    ELSE IF s.status = "Locked" THEN Ret(Ok, [s EXCEPT !.status = "InitRedeem"])
    ELSE Ret(Err("UnexpectedAction", "Buyer Fn message_sent(), unexpected status"), s)

message_sent(s) ==
    IF s.status = "Offered" THEN Ret(Ok, [s EXCEPT !.status = "Accepted"])
    ELSE IF s.status = "Locked" THEN Ret(Ok, [s EXCEPT !.status = "InitRedeem"])
    ELSE Ret(Err("UnexpectedAction", "Buyer Fn message_sent(), unexpected status"), s)

\* swap::publish_transaction: the transaction is posted to the node
post_tx(node) == IF node.fail = "post_tx" THEN Err("Node", "post_tx") ELSE Ok

\* publish_transaction as it would be if it recorded the publication before
\* the node took the transaction
publish_transaction_marks_first(s, node, retry) ==
    LET marked == [s EXCEPT !.redeem_confirmations = Some(0)]
    IN  IF retry
        THEN IF ~post_tx(node).ok THEN Ret(post_tx(node), marked)
             ELSE Ret(Ok, marked)
        ELSE IF s.status = "Redeem"
        THEN IF s.redeem_confirmations.some
             THEN Ret(Err("UnexpectedAction",
                "Buyer Fn publish_transaction(), redeem_confirmations already defined"), s)
             ELSE IF ~post_tx(node).ok THEN Ret(post_tx(node), marked)
             ELSE Ret(Ok, marked)
        ELSE Ret(Err("UnexpectedAction",
                "Buyer Fn publish_transaction(), unexpected status"), s)

publish_transaction(s, node, retry) ==
    IF retry
    THEN IF ~post_tx(node).ok THEN Ret(post_tx(node), s)
         ELSE Ret(Ok, [s EXCEPT !.redeem_confirmations = Some(0)])
    ELSE IF s.status = "Redeem"
    THEN IF s.redeem_confirmations.some
         THEN Ret(Err("UnexpectedAction",
            "Buyer Fn publish_transaction(), redeem_confirmations already defined"), s)
         ELSE IF ~post_tx(node).ok THEN Ret(post_tx(node), s)
         ELSE Ret(Ok, [s EXCEPT !.redeem_confirmations = Some(0)])
    ELSE Ret(Err("UnexpectedAction",
            "Buyer Fn publish_transaction(), unexpected status"), s)

\* node = [kernel, tip, fail]: what Swap::find_redeem_kernel and
\* get_chain_tip answer
required_action(s, e, node) ==
    IF s.status = "Offered" THEN Ret(OkAction("SendMessage(1)"), s)
    ELSE IF s.status = "Accepted" THEN Ret(Panic("unreachable"), s)
    ELSE IF s.status = "Locked" THEN Ret(OkAction("SendMessage(2)"), s)
    ELSE IF s.status = "InitRedeem" THEN Ret(OkAction("ReceiveMessage"), s)
    ELSE IF s.status = "Redeem"
    THEN IF ~s.redeem_confirmations.some THEN Ret(OkAction("PublishTx"), s)
         ELSE IF node.fail = "get_kernel" THEN Ret(Err("Node", "get_kernel"), s)
         ELSE IF node.kernel.some
         THEN LET confX == SaturatingSub(node.tip, node.kernel.v) + 1
              IN  IF node.fail = "get_chain_tip" THEN Ret(Err("Node", "get_chain_tip"), s)
                  ELSE IF e.overflow_checks /\ ~FitsU(confX)
                  THEN Ret(Panic("arithmetic overflow"), s)
                  ELSE Ret(OkAction("Complete"),
                           [s EXCEPT !.redeem_confirmations = Some(WrapU(confX)),
                                     !.status = "Completed"])
         ELSE Ret(OkAction("ConfirmationRedeem"), s)
    ELSE Ret(OkAction("None"), s)

(***************************************************************************)
(* Inputs.  OfferArgs(p) is the call a well-behaved Seller and node lead   *)
(* to for the parameters p; the sets below vary it.                        *)
(***************************************************************************)
SellerEntry == Participant(0, FALSE, 1, TRUE)

OfferArgs(p) ==
    [offer |->
        [version |-> CURRENT_VERSION,
         network |-> "Floonet",
         start_time |-> p.now,
         primary_amount |-> p.amount,
         secondary_currency |-> "Btc",
         required_mwc_lock_confirmations |-> p.conf,
         mwc_lock_time_seconds |-> p.lock_time_seconds,
         seller_redeem_time |-> p.redeem_time,
         lock_slate |->
            [BlankSlate(2) EXCEPT
                !.amount = p.amount,
                !.fee = tx_fee(1, 2, 1),
                !.height = p.tip,
                !.participant_data = <<SellerEntry>>,
                !.inputs = 1,
                !.outputs = 1,
                !.kernels = <<[features |-> "Plain", fee |-> tx_fee(1, 2, 1),
                               lock_height |-> 0]>>],
         refund_slate |->
            [BlankSlate(2) EXCEPT
                !.amount = p.refund_amount,
                !.fee = tx_fee(1, 1, 1),
                !.height = p.tip,
                !.lock_height = p.refund_lock_height,
                !.participant_data = <<SellerEntry>>,
                !.outputs = 1,
                !.kernels = <<[features |-> "HeightLocked", fee |-> tx_fee(1, 1, 1),
                               lock_height |-> p.refund_lock_height]>>],
         redeem_participant |-> SellerEntry,
         multisig |-> [valid |-> TRUE]],
     secondary |-> [kind |-> "BtcOffer", lock_time |-> p.btc_lock_time],
     node |-> [tip |-> p.tip, found |-> 1, fail |-> "none"],
     now |-> p.now]

\* The parameters of a well-formed offer, within the width of the model
Scenario ==
    [amount |-> 100, refund_amount |-> 100 - tx_fee(1, 1, 1), conf |-> 10,
     lock_time_seconds |-> 1200, redeem_time |-> 600, tip |-> 100, now |-> 1000,
     refund_lock_height |-> 130, btc_lock_time |-> 1000 + (30 * 60) + 600]

\* An offer whose refund amount makes refund.amount + refund.fee pass 2^64
WrappingScenario ==
    [Scenario EXCEPT !.refund_amount = U64Max,
                     !.amount = tx_fee(1, 1, 1) - 1]

\* The offers of the swap's life: accepted ones and a few rejected ones
LifeOffers ==
    { OfferArgs(Scenario),
      OfferArgs(WrappingScenario),
      [OfferArgs(Scenario) EXCEPT !.offer.version = CURRENT_VERSION + 1],
      [OfferArgs(Scenario) EXCEPT !.offer.refund_slate.amount = 99],
      [OfferArgs(Scenario) EXCEPT !.offer.multisig.valid = FALSE],
      [OfferArgs(Scenario) EXCEPT !.offer.lock_slate.lock_height = 1],
      [OfferArgs(Scenario) EXCEPT !.node.fail = "get_chain_tip"] }

(***************************************************************************)
(* The offers of the validation sweep                                      *)
(***************************************************************************)
\* The calls that differ from the call a in one place: one field of the
\* offer a check reads, one answer of the node, the clock
Vary(a) ==
    LET o == a.offer
        lock == o.lock_slate
        refund == o.refund_slate
        noInputFee == tx_fee(0, lock.outputs + 1, 1)
        low == a.node.tip + 5
    IN
    { [a EXCEPT !.offer.version = @ + 1],
      [a EXCEPT !.offer.network = "Mainnet"],
      [a EXCEPT !.offer.start_time = a.now + 15],
      [a EXCEPT !.offer.start_time = a.now + 16],
      [a EXCEPT !.offer.lock_slate.lock_height = 1],
      [a EXCEPT !.offer.lock_slate.amount = @ + 1],
      [a EXCEPT !.offer.lock_slate.fee = @ + 1],
      [a EXCEPT !.offer.lock_slate.num_participants = 3],
      [a EXCEPT !.offer.lock_slate.kernels = <<>>],
      [a EXCEPT !.offer.lock_slate.kernels =
            <<[features |-> "Plain", fee |-> lock.fee + 1, lock_height |-> 0]>>],
      [a EXCEPT !.offer.lock_slate.kernels =
            <<[features |-> "HeightLocked", fee |-> lock.fee, lock_height |-> 0]>>],
      [a EXCEPT !.offer.lock_slate.inputs = 0,
                !.offer.lock_slate.fee = noInputFee,
                !.offer.lock_slate.kernels =
                    <<[features |-> "Plain", fee |-> noInputFee, lock_height |-> 0]>>],
      [a EXCEPT !.node.fail = "get_outputs_from_node"],
      [a EXCEPT !.node.found = 0],
      [a EXCEPT !.node.fail = "get_chain_tip"],
      [a EXCEPT !.offer.lock_slate.height = a.node.tip + 1],
      [a EXCEPT !.offer.refund_slate.lock_height = low,
                !.offer.refund_slate.kernels =
                    <<[features |-> "HeightLocked", fee |-> refund.fee,
                       lock_height |-> low]>>],
      [a EXCEPT !.offer.refund_slate.kernels = <<>>],
      [a EXCEPT !.offer.refund_slate.kernels =
            <<[features |-> "HeightLocked", fee |-> refund.fee + 1,
               lock_height |-> refund.lock_height]>>],
      [a EXCEPT !.offer.refund_slate.kernels =
            <<[features |-> "HeightLocked", fee |-> refund.fee,
               lock_height |-> refund.lock_height + 1]>>],
      [a EXCEPT !.offer.refund_slate.kernels =
            <<[features |-> "Plain", fee |-> refund.fee, lock_height |-> 0]>>],
      [a EXCEPT !.offer.refund_slate.num_participants = 1],
      [a EXCEPT !.offer.refund_slate.amount = @ + 1],
      [a EXCEPT !.offer.refund_slate.fee = @ + 1,
                !.offer.refund_slate.amount = @ - 1,
                !.offer.refund_slate.kernels =
                    <<[features |-> "HeightLocked", fee |-> refund.fee + 1,
                       lock_height |-> refund.lock_height]>>],
      [a EXCEPT !.offer.secondary_currency = "Eth"],
      [a EXCEPT !.secondary.kind = "BtcAcceptOffer"],
      [a EXCEPT !.secondary.lock_time = @ + (o.seller_redeem_time \div 10)],
      [a EXCEPT !.secondary.lock_time = @ + (o.seller_redeem_time \div 20)],
      [a EXCEPT !.offer.multisig.valid = FALSE] }

\* The calls that differ from the scenario's in at most two places
VariedOffers ==
    {OfferArgs(Scenario)} \cup UNION { Vary(b) \cup {b} : b \in Vary(OfferArgs(Scenario)) }

\* The calls of a well-behaved Seller, over the parameters of the refund
\* lock height check: required confirmations, lock time, chain tip and the
\* refund lock height, up to the largest u64
LockHeightOffers ==
    { OfferArgs([Scenario EXCEPT
            !.conf = c, !.lock_time_seconds = t, !.tip = tip,
            !.refund_lock_height = tip + d,
            !.btc_lock_time = Scenario.now + (d * 60) + Scenario.redeem_time]) :
        c \in {0, 10, 11, U64Max \div 2, U64Max},
        t \in {0, 540, 599, 600, 1200, 1320, 2400, 3600, U64Max},
        tip \in {0, 5, 100},
        d \in {5, 9, 10, 11, 12, 20, 29, 30, 31, 32, 50} }

\* The calls over the parameters of the lock time check: the refund lock
\* height, the Seller's redeem time, and the BTC lock time as it is meant,
\* shifted, and as the addition of the width of the model gives it
LockTimesAround(d, r) ==
    UNION { { x \in { e - (r \div 10), e - (r \div 20) - 1, e - (r \div 20), e,
                      e + (r \div 20), e + (r \div 20) + 1, e + (r \div 10) } :
                x >= 0 /\ x <= I64Max } :
            e \in { Scenario.now + (d * 60) + r,
                    WrapU(Scenario.now + (d * 60) + r) } }

LockTimeOffers ==
    UNION { { OfferArgs([Scenario EXCEPT
                    !.refund_lock_height = Scenario.tip + dr[1],
                    !.redeem_time = dr[2],
                    !.btc_lock_time = lt]) : lt \in LockTimesAround(dr[1], dr[2]) } :
            dr \in {30, 40, (I64Max \div 60) + 1, (U64Mod \div 60) + 1}
                    \X {0, 19, 20, 600, 620} }

SweepOffers == VariedOffers \cup LockHeightOffers \cup LockTimeOffers

\* The primitives that may fail for a keychain, a Context and offer data
CryptoPoints ==
    { "none", "redeem_secret", "multisig_secret", "multisig_round", "lock_tx_secret",
      "multisig_commit", "lock_fill_round_1", "lock_fill_round_2", "refund_tx_secret",
      "refund_fill_round_1", "refund_fill_round_2", "add_transaction_elements",
      "redeem_tx_secret", "redeem_fill_round_1", "redeem_tx_fields", "sign_single",
      "multisig_export" }

Contexts ==
    { [kind |-> "Buyer", bad |-> b, redeem |-> 7, redeem_nonce |-> 1] : b \in CryptoPoints }
    \cup { [kind |-> "Seller", bad |-> "none", redeem |-> 0, redeem_nonce |-> 1] }

\* The wallets: a release binary with every Context, a debug binary with the
\* Contexts for which no primitive fails
Envs ==
    { [ctx |-> c, overflow_checks |-> FALSE, network |-> "Floonet"] : c \in Contexts }
    \cup { [ctx |-> c, overflow_checks |-> TRUE, network |-> "Floonet"] :
                c \in {x \in Contexts : x.bad = "none"} }

\* The offsets thread_rng may draw in build_redeem_slate
Offsets == {1, 2}

\* The Seller's entry of a RedeemUpdate
RedeemParts ==
    { Participant(0, TRUE, 1, TRUE), Participant(0, TRUE, 2, FALSE),
      Participant(0, FALSE, 1, TRUE), Participant(0, TRUE, 2, TRUE) }

\* What the node answers to post_tx, get_kernel and get_chain_tip
NodeAnswers ==
    { [kernel |-> None, tip |-> 101, fail |-> "none"],
      [kernel |-> Some(100), tip |-> 101, fail |-> "none"],
      [kernel |-> Some(102), tip |-> 101, fail |-> "none"],
      [kernel |-> Some(100), tip |-> 101, fail |-> "post_tx"],
      [kernel |-> Some(100), tip |-> 101, fail |-> "get_kernel"],
      [kernel |-> Some(100), tip |-> 101, fail |-> "get_chain_tip"],
      [kernel |-> Some(0), tip |-> U64Max, fail |-> "none"] }

(***************************************************************************)
(* The Seller's swap of an offer (SellApi::create_swap_offer), on which    *)
(* the calls of BuyApi may be made as well                                 *)
(***************************************************************************)
SellerSwap(a) ==
    [NewBuyerSwap(a, [network |-> a.offer.network]) EXCEPT
        !.role = "Seller", !.status = "Created", !.participant_id = 0]

(***************************************************************************)
(* Actions: one per call                                                   *)
(***************************************************************************)
Call(op, a, r) ==
    /\ pre' = swap
    /\ swap' = r.swap
    /\ last' = [op |-> op, res |-> r.res]
    /\ args' = a
    /\ UNCHANGED <<env, file>>

AcceptSwapOffer(offers) ==
    /\ swap = NoSwap
    /\ \E a \in offers : Call("accept_swap_offer", a, accept_swap_offer(a, env))

InitRedeem ==
    /\ swap # NoSwap
    /\ swap.redeem_slate.inputs < MaxTxInputs
    /\ \E offset \in Offsets :
        Call("init_redeem", [offset |-> offset], init_redeem(swap, env, offset))

Redeem ==
    /\ swap # NoSwap
    /\ \E part \in RedeemParts :
        Call("redeem", [redeem_participant |-> part], redeem(swap, env, part))

Completed ==
    /\ swap # NoSwap
    /\ Call("completed", NoArgs, completed(swap))

Message ==
    /\ swap # NoSwap
    /\ Call("message", NoArgs, message(swap, env))

MessageSent ==
    /\ swap # NoSwap
    /\ Call("message_sent", NoArgs, message_sent(swap))

PublishTransaction ==
    /\ swap # NoSwap
    /\ \E retry \in BOOLEAN, node \in NodeAnswers :
        Call("publish_transaction", [retry |-> retry, node |-> node],
             publish_transaction(swap, node, retry))

RequiredAction ==
    /\ swap # NoSwap
    /\ \E node \in NodeAnswers :
        Call("required_action", [node |-> node], required_action(swap, env, node))

\* Accepted -> Locked: the currency specific API saw both locks confirmed
SecondaryLocked ==
    /\ swap # NoSwap
    /\ swap.status = "Accepted"
    /\ Call("secondary_locked", NoArgs, Ret(Ok, [swap EXCEPT !.status = "Locked"]))

\* A swap may be marked Cancelled from any state before Locked
Cancel ==
    /\ swap # NoSwap
    /\ swap.status \in {"Created", "Offered", "Accepted"}
    /\ Call("cancel", NoArgs, Ret(Ok, [swap EXCEPT !.status = "Cancelled"]))

\* SellApi: the Seller creates its swap and, the offer sent, it is Offered
SellCreateSwapOffer ==
    /\ swap = NoSwap
    /\ env.ctx.kind = "Seller"
    /\ Call("sell.create_swap_offer", NoArgs, Ret(Ok, SellerSwap(OfferArgs(Scenario))))

SellMessageSent ==
    /\ swap # NoSwap
    /\ swap.role = "Seller"
    /\ swap.status = "Created"
    /\ Call("sell.message_sent", NoArgs, Ret(Ok, [swap EXCEPT !.status = "Offered"]))

\* The private one-shot operations of BuyApi, invoked on the Buyer's swap
SignLockSlate ==
    /\ swap # NoSwap
    /\ swap.role = "Buyer"
    /\ Call("sign_lock_slate", NoArgs, sign_lock_slate(swap, env))

SignRefundSlate ==
    /\ swap # NoSwap
    /\ swap.role = "Buyer"
    /\ Call("sign_refund_slate", NoArgs, sign_refund_slate(swap, env))

CalculateAdaptorSignature ==
    /\ swap # NoSwap
    /\ swap.role = "Buyer"
    /\ Call("calculate_adaptor_signature", NoArgs,
            calculate_adaptor_signature(swap, env))

Init ==
    /\ swap = NoSwap
    /\ pre = NoSwap
    /\ last = [op |-> "new", res |-> Ok]
    /\ args = NoArgs
    /\ env \in Envs
    /\ file = NoFile

BuyerCalls ==
    \/ InitRedeem
    \/ Redeem
    \/ Completed
    \/ Message
    \/ MessageSent
    \/ PublishTransaction
    \/ RequiredAction

Next ==
    \/ AcceptSwapOffer(LifeOffers)
    \/ BuyerCalls
    \/ SecondaryLocked
    \/ Cancel
    \/ SellCreateSwapOffer
    \/ SellMessageSent

Spec == Init /\ [][Next]_vars

\* The life of the swap with the private one-shot operations invoked as well
NextOneShot ==
    \/ Next
    \/ SignLockSlate
    \/ SignRefundSlate
    \/ CalculateAdaptorSignature

SpecOneShot == Init /\ [][NextOneShot]_vars

\* accept_swap_offer alone, called once with an offer of the validation sweep
NextOffer ==
    /\ last.op = "new"
    /\ AcceptSwapOffer(SweepOffers)

SpecOffer == Init /\ [][NextOffer]_vars

(***************************************************************************)
(* Properties                                                              *)
(***************************************************************************)
\* The calls of the Buyer API that are made on an existing swap
BuyerApiOps ==
    {"init_redeem", "redeem", "completed", "message", "message_sent",
     "publish_transaction", "required_action"}

\* C1: with the order Created < Offered < Accepted < Locked < InitRedeem <
\* Redeem < Completed, the status of a Buyer swap after a call of init_redeem,
\* redeem, completed, message, message_sent, publish_transaction or
\* required_action is greater than or equal to its status before the call.
C1_StatusNeverDecreases ==
    (last.op \in BuyerApiOps /\ pre.role = "Buyer")
        => Rank(swap.status) >= Rank(pre.status)

\* C1's case: the swap went all the way to Redeem and a call moved it on
C1_Witness ==
    /\ last.op = "required_action"
    /\ pre.role = "Buyer"
    /\ pre.status = "Redeem"
    /\ swap.status = "Completed"

\* The statuses a call leaves by the transition it performs
SourceStatuses(op) ==
    CASE op = "init_redeem" -> {"Locked"}
      [] op = "redeem" -> {"InitRedeem"}
      [] op = "completed" -> {"Redeem", "Completed"}
      [] op = "message_sent" -> {"Offered", "Locked"}
      [] op = "publish_transaction" -> {"Redeem"}
      [] op = "required_action" -> {"Redeem"}

PreconditionViolated ==
    /\ last.op \in BuyerApiOps \ {"message"}
    /\ pre # NoSwap
    /\ (pre.role # "Buyer" \/ pre.status \notin SourceStatuses(last.op))

\* C2: no call of init_redeem, redeem, completed, message_sent,
\* publish_transaction or required_action advances the status when it is made
\* on a swap whose role is not Buyer or whose status is not the source
\* status of the call's transition: the status after the call is the status
\* before it.
C2_NoAdvanceOnViolatedPrecondition ==
    PreconditionViolated => swap.status = pre.status

C4_AdaptorSignatureKept ==
    (pre # NoSwap /\ pre.adaptor_signature.some)
        => swap.adaptor_signature = pre.adaptor_signature

\* C4's case: the signature was set and the Seller's entry of the redeem
\* slate, which the signature is computed from, was replaced afterwards
C4_Witness ==
    /\ swap # NoSwap
    /\ swap.adaptor_signature.some
    /\ last.op = "redeem"
    /\ redeem_tx_fields(swap.redeem_slate) # swap.adaptor_signature.v.fields

\* The errors of the checks accept_swap_offer makes on the offer
ValidationErrorKinds ==
    {"InvalidMessageData", "IncompatibleVersion", "UnexpectedNetwork",
     "InvalidLockHeightLockTx"}

Accepting == last.op = "accept_swap_offer"

\* The wallet of a Buyer whose keychain and Context fail no primitive
GoodBuyer == env.ctx.kind = "Buyer" /\ env.ctx.bad = "none"

C6_FirstFailingCheck ==
    (Accepting /\ env.ctx.kind = "Buyer") =>
        LET o == args.offer
            res == last.res
        IN  IF o.version # CURRENT_VERSION
            THEN res.kind = "IncompatibleVersion" /\ swap = NoSwap
            ELSE IF o.network # env.network
            THEN res.kind = "UnexpectedNetwork" /\ swap = NoSwap
            ELSE IF o.start_time > args.now + 15
            THEN /\ res.kind = "InvalidMessageData"
                 /\ res.reason = "Buyer/Seller clock are out of sync"
                 /\ swap = NoSwap
            ELSE IF o.lock_slate.lock_height # 0
            THEN res.kind = "InvalidLockHeightLockTx" /\ swap = NoSwap
            ELSE res.kind \notin
                    {"IncompatibleVersion", "UnexpectedNetwork", "InvalidLockHeightLockTx"}

\* C6's case: an offer of the wrong network whose lock slate is height
\* locked as well is rejected for its network
C6_Witness ==
    /\ Accepting
    /\ env.ctx.kind = "Buyer"
    /\ args.offer.version = CURRENT_VERSION
    /\ args.offer.network # env.network
    /\ args.offer.lock_slate.lock_height # 0
    /\ last.res.kind = "UnexpectedNetwork"
    /\ swap = NoSwap

\* C7: for every swap accept_swap_offer returned, and after every later
\* call, refund_slate.amount + refund_slate.fee = lock_slate.amount and
\* lock_slate.amount = primary_amount.
C7_RefundAmount ==
    (swap # NoSwap /\ swap.role = "Buyer")
        => /\ swap.refund_slate.amount + swap.refund_slate.fee = swap.lock_slate.amount
           /\ swap.lock_slate.amount = swap.primary_amount

\* C8: for every swap accept_swap_offer returned, and after every later
\* call, redeem_slate.amount = primary_amount - redeem_slate.fee, the
\* subtraction neither saturating nor underflowing.
C8_RedeemAmount ==
    (swap # NoSwap /\ swap.role = "Buyer")
        => /\ swap.primary_amount >= swap.redeem_slate.fee
           /\ swap.redeem_slate.amount = swap.primary_amount - swap.redeem_slate.fee
           /\ ~(last.op = "init_redeem" /\ last.res.kind = "Panic")

\* C9: an offer that is well formed otherwise is accepted if and only if
\* refund_slate.lock_height >= tip + max(2 * required_mwc_lock_confirmations
\* + 10, max(mwc_lock_time_seconds / 120, mwc_lock_time_seconds / 60 - 10)),
\* the terms taken as integers.
C9_RefundLockHeight ==
    (Accepting /\ GoodBuyer /\ args \in LockHeightOffers) =>
        LET o == args.offer
            required == Max((2 * o.required_mwc_lock_confirmations) + 10,
                            Max(o.mwc_lock_time_seconds \div 120,
                                (o.mwc_lock_time_seconds \div 60) - 10))
        IN  last.res.ok <=> o.refund_slate.lock_height >= args.node.tip + required

\* C10: an offer that is well formed otherwise is accepted if and only if
\* |lock_time - (now + (refund.lock_height - tip) * 60 + seller_redeem_time)|
\* <= seller_redeem_time / 20, the terms taken as integers.
C10_SecondaryLockTime ==
    (Accepting /\ GoodBuyer /\ args \in LockTimeOffers) =>
        LET o == args.offer
            expected == args.now + ((o.refund_slate.lock_height - args.node.tip) * 60)
                            + o.seller_redeem_time
        IN  last.res.ok <=>
                AbsInt(args.secondary.lock_time - expected) <= o.seller_redeem_time \div 20

\* C11: required_action changes no field of the swap but
\* redeem_confirmations: every other field, status included, is after the
\* call what it was before.
C11_RequiredActionFrame ==
    (last.op = "required_action" /\ pre.role = "Buyer")
        => [swap EXCEPT !.redeem_confirmations = pre.redeem_confirmations] = pre

\* The status of a swap, "NoSwap" when there is none
StatusOf(s) == IF s = NoSwap THEN "NoSwap" ELSE s.status

\* A message was acknowledged as sent by the last call
Acknowledged(status) ==
    last.op = "message_sent" /\ last.res.ok /\ StatusOf(pre) = status

\* C12: message_sent moves Offered to Accepted and Locked to InitRedeem and
\* changes nothing else; in every other status, so also when it is called a
\* second time, it returns UnexpectedAction and leaves the swap as it was; a
\* swap whose message 1 (message 2) was acknowledged is never again in
\* status Offered (Locked), so each message is acknowledged at most once.
C12_MessageSentOnce ==
    /\ [](last.op = "message_sent" =>
            IF pre.status = "Offered"
            THEN last.res.ok /\ swap = [pre EXCEPT !.status = "Accepted"]
            ELSE IF pre.status = "Locked"
            THEN last.res.ok /\ swap = [pre EXCEPT !.status = "InitRedeem"]
            ELSE last.res.kind = "UnexpectedAction" /\ swap = pre)
    /\ [](Acknowledged("Offered") => [](StatusOf(swap) # "Offered"))
    /\ [](Acknowledged("Locked") => [](StatusOf(swap) # "Locked"))

\* C12's case: message 2 was acknowledged and message_sent is called again
C12_Witness ==
    /\ last.op = "message_sent"
    /\ pre.status = "InitRedeem"
    /\ last.res.kind = "UnexpectedAction"
    /\ swap = pre

\* C13: whenever redeem returns an error, every field of the swap,
\* redeem_slate.participant_data included, is what it was before the call.
C13_RedeemErrorFrame ==
    (last.op = "redeem" /\ ~last.res.ok) => swap = pre

\* The errors of the keychain, the multisig builder, secp and the slate
\* signing rounds
CryptoErrorKinds == {"Keychain", "Multisig", "Secp", "LibWallet"}

\* C14: after init_redeem or redeem returned the error of a signing or crypto
\* primitive, the status of the swap is Cancelled.
C14_CryptoErrorCancels ==
    (last.op \in {"init_redeem", "redeem"} /\ last.res.kind \in CryptoErrorKinds)
        => swap.status = "Cancelled"

\* The last call failed on a call of the node
NodeCallFailed ==
    /\ last.op \in {"publish_transaction", "required_action"}
    /\ last.res.kind = "Node"

\* C15: when publish_transaction or required_action fails on a node call the
\* swap is left as it was, and the same call repeated with a node that
\* answers gives what it would have given had the failed call not been made.
C15_NodeErrorRetriable ==
    NodeCallFailed =>
        /\ swap = pre
        /\ \A node \in NodeAnswers :
            /\ required_action(swap, env, node) = required_action(pre, env, node)
            /\ \A retry \in BOOLEAN :
                publish_transaction(swap, node, retry) = publish_transaction(pre, node, retry)

\* C15's case: the redeem kernel was found and get_chain_tip failed
C15_Witness ==
    /\ last.op = "required_action"
    /\ last.res = Err("Node", "get_chain_tip")
    /\ pre.status = "Redeem"
    /\ pre.redeem_confirmations.some
    /\ swap = pre

(***************************************************************************)
(* The Buyer's swap driven by the advice of required_action: the driver    *)
(* performs the advised action, the currency specific API reports the      *)
(* locks, the Seller's Redeem message is delivered.  The driver, the node  *)
(* and the delivery of messages are fair: a step that stays possible is    *)
(* eventually taken with a node that answers.                              *)
(***************************************************************************)
\* A node that answers, with the redeem kernel not yet / already on chain
NodeWaiting == [kernel |-> None, tip |-> 101, fail |-> "none"]
NodeConfirmed == [kernel |-> Some(100), tip |-> 101, fail |-> "none"]

\* What required_action advises for the swap, in a status it only reads
Advised(s) ==
    IF s = NoSwap \/ s.role # "Buyer" \/ s.status \in {"Accepted", "Redeem"}
    THEN "None"
    ELSE required_action(s, env, NodeWaiting).res.reason

\* SendMessage(2) needs the adaptor signature: init_redeem comes first
DriveInitRedeem ==
    /\ Advised(swap) = "SendMessage(2)"
    /\ ~swap.adaptor_signature.some
    /\ InitRedeem

\* SendMessage: the message is built, sent and acknowledged
DriveSendMessage ==
    /\ Advised(swap) \in {"SendMessage(1)", "SendMessage(2)"}
    /\ message(swap, env).res.ok
    /\ MessageSent

DriveSecondaryLocked ==
    /\ swap # NoSwap
    /\ swap.role = "Buyer"
    /\ SecondaryLocked

\* ReceiveMessage: the RedeemUpdate of an honest Seller arrives
DriveReceiveMessage ==
    /\ Advised(swap) = "ReceiveMessage"
    /\ \E part \in {p \in RedeemParts : p.valid /\ p.part_sig} :
        Call("redeem", [redeem_participant |-> part], redeem(swap, env, part))

\* PublishTx, with whatever the node answers
DrivePublishTx(nodes) ==
    /\ swap # NoSwap
    /\ swap.role = "Buyer"
    /\ swap.status = "Redeem"
    /\ ~swap.redeem_confirmations.some
    /\ \E node \in nodes :
        Call("publish_transaction", [retry |-> FALSE, node |-> node],
             publish_transaction(swap, node, FALSE))

\* The driver asks again while the redeem transaction is not confirmed
DriveConfirmation(nodes) ==
    /\ swap # NoSwap
    /\ swap.role = "Buyer"
    /\ swap.status = "Redeem"
    /\ swap.redeem_confirmations.some
    /\ \E node \in nodes :
        Call("required_action", [node |-> node], required_action(swap, env, node))

NextDriven ==
    \/ AcceptSwapOffer(LifeOffers)
    \/ DriveInitRedeem
    \/ DriveSendMessage
    \/ DriveSecondaryLocked
    \/ DriveReceiveMessage
    \/ DrivePublishTx(NodeAnswers)
    \/ DriveConfirmation(NodeAnswers)

SpecDriven ==
    /\ Init
    /\ [][NextDriven]_vars
    /\ WF_vars(DriveInitRedeem)
    /\ WF_vars(DriveSendMessage)
    /\ WF_vars(DriveSecondaryLocked)
    /\ WF_vars(DriveReceiveMessage)
    /\ WF_vars(DrivePublishTx({NodeWaiting}))
    /\ WF_vars(DriveConfirmation({NodeConfirmed}))

TerminalStatuses == {"Completed", "Refunded", "Cancelled"}

\* C16: a Buyer swap driven by the advice of required_action, with a fair
\* driver, node and message delivery, eventually reaches Completed, Refunded
\* or Cancelled, and a swap in one of these statuses keeps its status.
C16_Terminates ==
    /\ [](swap # NoSwap => <>(StatusOf(swap) \in TerminalStatuses))
    /\ \A st \in TerminalStatuses : [](StatusOf(swap) = st => [](StatusOf(swap) = st))

\* C17: when required_action is called on a Buyer swap in status InitRedeem
\* and the chain tip has reached refund_slate.lock_height, the advice is a
\* refund action, not to go on waiting for the Seller's message.
C17_RefundAdvised ==
    (/\ last.op = "required_action"
     /\ pre.role = "Buyer"
     /\ pre.status = "InitRedeem"
     /\ args.node.fail = "none"
     /\ args.node.tip >= pre.refund_slate.lock_height)
        => (last.res.ok /\ last.res.reason # "ReceiveMessage")

(***************************************************************************)
(* Schnorr signatures as scalars: a signature made with the secret x, the  *)
(* nonce k and the challenge e of the slate's fields is k + e * x, plus    *)
(* the extra key when one is given (aggsig::sign_single).                  *)
(***************************************************************************)
SecretScalar(secret) == (secret[1] + secret[2]) % GroupOrder

RECURSIVE SumSeq(_)
SumSeq(q) == IF q = <<>> THEN 0 ELSE Head(q) + SumSeq(Tail(q))

\* The challenge: a hash of the public nonces of the participants
Challenge(fields) == ((3 * SumSeq(fields)) + 1) % GroupOrder

Scalar(sig) ==
    (sig.nonce + (Challenge(sig.fields) * SecretScalar(sig.secret)) + sig.extra)
        % GroupOrder

\* The Buyer's partial signature on the redeem slate, as fill_round_2 makes
\* it in finalize_redeem_slate: redeem_tx_secret, context.redeem_nonce, no
\* extra key
calculate_partial_sig(e, s) ==
    [secret |-> <<s.redeem_slate.amount, s.redeem_slate.offset>>,
     nonce |-> e.ctx.redeem_nonce,
     extra |-> 0,
     fields |-> redeem_tx_fields(s.redeem_slate)]

\* The swap was redeemed with the Seller's entry the adaptor signature was
\* computed for
HonestlyRedeemed ==
    /\ swap # NoSwap
    /\ swap.role = "Buyer"
    /\ swap.status \in {"Redeem", "Completed"}
    /\ swap.adaptor_signature.some
    /\ redeem_tx_fields(swap.redeem_slate) = swap.adaptor_signature.v.fields

Entries(s) ==
    <<Len(s.lock_slate.participant_data), Len(s.refund_slate.participant_data),
      Len(s.redeem_slate.participant_data)>>

Truncated == [tag |-> "Truncated"]

VersionCompatInfo(version, orig_version) ==
    [version |-> version, orig_version |-> orig_version]

\* The conversions between the slate structures.  A SlateV3 has every field
\* of the model; a SlateV2 has no payment proof and no TTL cutoff.  markers
\* says what a downgrade does with the version markers: it keeps them
\* ("kept") or resets them to the version of the structure ("reset").
\* The in-memory Slate has the fields of the newest structure, SlateV4.
SlateV4From(slate) == slate

SlateV3From(s, markers) ==
    IF markers = "reset"
    THEN [s EXCEPT !.version_info = VersionCompatInfo(3, 3)]
    ELSE s

SlateV2From(s, markers) ==
    [version_info |-> IF markers = "reset" THEN VersionCompatInfo(2, 2)
                      ELSE s.version_info,
     amount |-> s.amount]

\* The upgrades: the fields a SlateV2 does not have get their defaults
SlateV3FromV2(s) ==
    [version_info |-> s.version_info,
     amount |-> s.amount,
     payment_proof |-> None,
     ttl_cutoff_height |-> None]

SlateV4FromV3(s) == s

SlateFromV4(s) == s

\* A variant of into_version that takes V3B with the oldest version
into_version_v3b_oldest(slate, version, markers) ==
    CASE version = "V4" -> [tag |-> "V4", slate |-> SlateV4From(slate)]
      [] version = "V3" ->
            [tag |-> "V3",
             slate |-> SlateV3From(SlateV4From(slate), markers)]
      [] version \in {"V3B", "V2"} ->
            [tag |-> "V2",
             slate |-> SlateV2From(SlateV3From(SlateV4From(slate), markers),
                                   markers)]

\* VersionedSlate::into_version
into_version(slate, version, markers) ==
    CASE version = "V4" -> [tag |-> "V4", slate |-> SlateV4From(slate)]
      [] version \in {"V3B", "V3"} ->
            [tag |-> "V3",
             slate |-> SlateV3From(SlateV4From(slate), markers)]
      [] version = "V2" ->
            [tag |-> "V2",
             slate |-> SlateV2From(SlateV3From(SlateV4From(slate), markers),
                                   markers)]

\* VersionedSlate::version
version(vs) == vs.tag

\* impl From<VersionedSlate> for Slate
SlateFrom(vs) ==
    CASE vs.tag = "V4" -> SlateFromV4(vs.slate)
      [] vs.tag = "V3" -> SlateFromV4(SlateV4FromV3(vs.slate))
      [] vs.tag = "V2" ->
            SlateFromV4(SlateV4FromV3(SlateV3FromV2(vs.slate)))

\* A variant of put_tx that looks at the payment proof alone
put_tx_proof_only(slate, a, f) ==
    LET out_slate ==
            IF slate.payment_proof.some
            THEN into_version(
                    [slate EXCEPT !.version_info = VersionCompatInfo(3, 3)],
                    "V3", a.markers)
            ELSE into_version(
                    [slate EXCEPT !.version_info = VersionCompatInfo(2, 2)],
                    "V2", a.markers)
    IN  CASE a.io = "create" ->
                [res |-> Err("IO", "Unable to create proof file"),
                 slate |-> slate, file |-> f]
          [] a.io = "to_string" ->
                [res |-> Err("GenericError", "Failed convert Slate to Json"),
                 slate |-> slate, file |-> Truncated]
          [] a.io = "write_all" ->
                [res |-> Err("IO", "Unable to store data at proof file"),
                 slate |-> slate, file |-> Truncated]
          [] a.io = "sync_all" ->
                [res |-> Err("IO", "Unable to store data at proof file"),
                 slate |-> slate, file |-> out_slate]
          [] OTHER -> [res |-> Ok, slate |-> slate, file |-> out_slate]

\* PathToSlate::put_tx.  slate is the caller's slate, f what the file holds
\* and a = [io, markers] the step of the function the file system fails at,
\* if any; the result carries the caller's slate after the call.
put_tx(slate, a, f) ==
    LET out_slate ==
            IF FALSE
            THEN into_version(slate, "V4", a.markers)
            ELSE IF slate.payment_proof.some \/ slate.ttl_cutoff_height.some
            THEN into_version(
                    [slate EXCEPT !.version_info = VersionCompatInfo(3, 3)],
                    "V3", a.markers)
            ELSE into_version(
                    [slate EXCEPT !.version_info = VersionCompatInfo(2, 2)],
                    "V2", a.markers)
    IN  CASE a.io = "create" ->
                [res |-> Err("IO", "Unable to create proof file"),
                 slate |-> slate, file |-> f]
          [] a.io = "to_string" ->
                [res |-> Err("GenericError", "Failed convert Slate to Json"),
                 slate |-> slate, file |-> Truncated]
          [] a.io = "write_all" ->
                [res |-> Err("IO", "Unable to store data at proof file"),
                 slate |-> slate, file |-> Truncated]
          [] a.io = "sync_all" ->
                [res |-> Err("IO", "Unable to store data at proof file"),
                 slate |-> slate, file |-> out_slate]
          [] OTHER -> [res |-> Ok, slate |-> slate, file |-> out_slate]

\* The slates handed to put_tx
SlateVersions == {2, 3, 4}
Slates ==
    [version_info : {VersionCompatInfo(v, o) : v, o \in SlateVersions},
     amount : {0, 96},
     payment_proof : {None, Some("proof")},
     ttl_cutoff_height : {None, Some(1)}]

\* What the file system and the conversions do during a call of put_tx
PutTxArgs ==
    [io : {"none", "create", "to_string", "write_all", "sync_all"},
     markers : {"kept", "reset"}]

PutTx ==
    \E slate \in Slates, a \in PutTxArgs :
        LET r == put_tx(slate, a, file)
        IN  /\ last' = [op |-> "put_tx", res |-> r.res, slate |-> r.slate]
            /\ args' = [slate |-> slate, io |-> a.io, markers |-> a.markers]
            /\ file' = r.file
            /\ UNCHANGED <<swap, pre, env>>

\* The wallet writes slates to one path, before any swap exists
InitPutTx ==
    /\ Init
    /\ env.ctx.bad = "none"
    /\ ~env.overflow_checks

SpecPutTx == InitPutTx /\ [][PutTx]_vars

\* The call wrote a whole slate to the file
PutTxWrote == last.op = "put_tx" /\ args.io \in {"none", "sync_all"}

\* C20: put_tx never writes the file as V4; it writes it as V3 with
\* version_info.version = orig_version = 3 exactly when the slate's
\* payment_proof or ttl_cutoff_height is set, and as V2 with
\* version_info.version = orig_version = 2 otherwise; the caller's slate is
\* the same after the call as before it.
C20_SlateWriterPolicy ==
    /\ version(file) # "V4"
    /\ last.op = "put_tx" => last.slate = args.slate
    /\ PutTxWrote =>
        LET featured == args.slate.payment_proof.some
                            \/ args.slate.ttl_cutoff_height.some
        IN  /\ version(file) \in {"V2", "V3"}
            /\ version(file) = "V3" <=> featured
            /\ version(file) = "V3" =>
                    file.slate.version_info = VersionCompatInfo(3, 3)
            /\ version(file) = "V2" =>
                    file.slate.version_info = VersionCompatInfo(2, 2)

\* C20's case: a slate marked 4 with a TTL cutoff and no payment proof was
\* written, and the file holds it as V3
C20_Witness ==
    /\ PutTxWrote
    /\ last.res.ok
    /\ args.slate.version_info = VersionCompatInfo(4, 4)
    /\ ~args.slate.payment_proof.some
    /\ args.slate.ttl_cutoff_height.some
    /\ version(file) = "V3"

(***************************************************************************)
(* wallet_command (src/cmd/wallet.rs).  A version string is the sequence   *)
(* of its tokens: runs of digits, words, dots and dashes.  Words are       *)
(* counted by their rank in the ASCII order: alpha < beta < rc.            *)
(***************************************************************************)
Num(n) == [t |-> "num", v |-> n]
Word(n) == [t |-> "word", v |-> n]
Dot == [t |-> "dot", v |-> 0]
Dash == [t |-> "dash", v |-> 0]
alpha == Word(1)
beta == Word(2)
rc == Word(3)

MIN_COMPAT_NODE_VERSION ==
    <<Num(2), Dot, Num(0), Dot, Num(0), Dash, beta, Dot, Num(1)>>

\* The identifiers of a pre-release part: identifier (dot identifier)*
RECURSIVE ParseIdentifiers(_)
ParseIdentifiers(s) ==
    IF s = <<>> \/ Head(s).t \notin {"num", "word"}
    THEN [ok |-> FALSE]
    ELSE IF Len(s) = 1
    THEN [ok |-> TRUE, v |-> <<Head(s)>>]
    ELSE IF s[2].t # "dot"
    THEN [ok |-> FALSE]
    ELSE LET rest == ParseIdentifiers(SubSeq(s, 3, Len(s)))
         IN  IF rest.ok THEN [ok |-> TRUE, v |-> <<Head(s)>> \o rest.v]
             ELSE [ok |-> FALSE]

\* semver::Version::parse: major.minor.patch with an optional -pre
VersionParse(s) ==
    IF \/ Len(s) < 5
       \/ s[1].t # "num" \/ s[2].t # "dot" \/ s[3].t # "num"
       \/ s[4].t # "dot" \/ s[5].t # "num"
    THEN [ok |-> FALSE]
    ELSE LET v == [major |-> s[1].v, minor |-> s[3].v, patch |-> s[5].v]
         IN  IF Len(s) = 5
             THEN [ok |-> TRUE,
                   v |-> [major |-> v.major, minor |-> v.minor,
                          patch |-> v.patch, pre |-> <<>>]]
             ELSE IF s[6].t # "dash"
             THEN [ok |-> FALSE]
             ELSE LET p == ParseIdentifiers(SubSeq(s, 7, Len(s)))
                  IN  IF p.ok
                      THEN [ok |-> TRUE,
                            v |-> [major |-> v.major, minor |-> v.minor,
                                   patch |-> v.patch, pre |-> p.v]]
                      ELSE [ok |-> FALSE]

\* Ord of integers, of semver::Identifier (Numeric before AlphaNumeric) and
\* of a Vec of identifiers: -1 is Less, 0 Equal, 1 Greater
CmpInt(a, b) == IF a < b THEN 0 - 1 ELSE IF a > b THEN 1 ELSE 0

CmpIdentifier(a, b) ==
    IF a.t = b.t THEN CmpInt(a.v, b.v)
    ELSE IF a.t = "num" THEN 0 - 1 ELSE 1

RECURSIVE CmpPre(_, _)
CmpPre(p, q) ==
    IF p = <<>> THEN (IF q = <<>> THEN 0 ELSE 0 - 1)
    ELSE IF q = <<>> THEN 1
    ELSE LET c == CmpIdentifier(Head(p), Head(q))
         IN  IF c # 0 THEN c ELSE CmpPre(Tail(p), Tail(q))

\* Ord of semver::Version: a version without pre-release part is greater
\* than the same version with one
CmpVersion(a, b) ==
    IF a.major # b.major THEN CmpInt(a.major, b.major)
    ELSE IF a.minor # b.minor THEN CmpInt(a.minor, b.minor)
    ELSE IF a.patch # b.patch THEN CmpInt(a.patch, b.patch)
    ELSE IF a.pre = <<>> THEN (IF b.pre = <<>> THEN 0 ELSE 1)
    ELSE IF b.pre = <<>> THEN 0 - 1
    ELSE CmpPre(a.pre, b.pre)

\* `<` of Result<Version, SemVerError>: every Ok is less than every Err; two
\* errors are not told apart by the model
ResultLt(a, b) ==
    IF a.ok /\ b.ok THEN CmpVersion(a.v, b.v) < 0
    ELSE a.ok /\ ~b.ok

\* What wallet_command returns: its exit code, whether the node was asked
\* for its version and whether the wallet command was run
Exit(code, asked, ran) == [code |-> code, asked |-> asked, ran |-> ran]
\* The exit code of a process that panics
PanicCode == 101

\* A variant of wallet_command that compares the release numbers only
wallet_command_release_only(a) ==
    IF ~a.members THEN Exit(PanicCode, FALSE, FALSE)
    ELSE IF ~a.global_args THEN Exit(PanicCode, FALSE, FALSE)
    ELSE IF /\ a.version_info.some
            /\ VersionParse(a.version_info.v).ok
            /\ CmpVersion(
                  [VersionParse(a.version_info.v).v EXCEPT !.pre = <<>>],
                  [VersionParse(MIN_COMPAT_NODE_VERSION).v
                        EXCEPT !.pre = <<>>]) < 0
    THEN Exit(1, TRUE, FALSE)
    ELSE IF ~a.command_ok THEN Exit(1, TRUE, TRUE)
    ELSE Exit(0, TRUE, TRUE)

\* wallet_command.  a = [members, global_args, version_info, command_ok]:
\* whether the configuration has members, whether parse_global_args
\* succeeds, what get_version_info returns and whether
\* wallet_args::wallet_command succeeds.
wallet_command(a) ==
    IF ~a.members THEN Exit(PanicCode, FALSE, FALSE)
    ELSE IF ~a.global_args THEN Exit(PanicCode, FALSE, FALSE)
    ELSE IF /\ a.version_info.some
            /\ ResultLt(VersionParse(a.version_info.v),
                        VersionParse(MIN_COMPAT_NODE_VERSION))
    THEN Exit(1, TRUE, FALSE)
    ELSE IF ~a.command_ok THEN Exit(1, TRUE, TRUE)
    ELSE Exit(0, TRUE, TRUE)

\* The version strings a node may report
PreParts ==
    { <<>>, <<Dash, beta>>, <<Dash, beta, Dot, Num(0)>>,
      <<Dash, beta, Dot, Num(1)>>, <<Dash, beta, Dot, Num(2)>>,
      <<Dash, beta, Dot, Num(1), Dot, Num(0)>>,
      <<Dash, alpha, Dot, Num(2)>>, <<Dash, rc, Dot, Num(1)>>,
      <<Dash, Num(1)>>, <<Dash, beta, Dot, alpha>>,
      <<Dash>>, <<Dot, Num(1)>>, <<Dash, beta, Dot>> }

NodeVersions ==
    { <<Num(major), Dot, Num(minor), Dot, Num(patch)>> \o p :
        major \in {1, 2, 3}, minor \in {0, 1}, patch \in {0, 1},
        p \in PreParts }
    \cup { <<Num(1), Dot, Num(0)>>, <<>>, <<beta>>, <<Num(2)>> }

WalletArgs ==
    [members : BOOLEAN, global_args : BOOLEAN,
     version_info : {None} \cup {Some(v) : v \in NodeVersions},
     command_ok : BOOLEAN]

WalletCommand ==
    \E a \in WalletArgs :
        /\ last' = [op |-> "wallet_command", res |-> wallet_command(a)]
        /\ args' = a
        /\ UNCHANGED <<swap, pre, env, file>>

SpecWallet == InitPutTx /\ [][WalletCommand]_vars

\* The precedence of Semantic Versioning between two version strings:
\* both are versions and the first precedes the second
RECURSIVE PrePrecedes(_, _)
PrePrecedes(p, q) ==
    /\ q # <<>>
    /\ \/ p = <<>>
       \/ /\ p # <<>>
          /\ \/ Head(p).t = "num" /\ Head(q).t = "word"
             \/ Head(p).t = Head(q).t /\ Head(p).v < Head(q).v
             \/ Head(p) = Head(q) /\ PrePrecedes(Tail(p), Tail(q))

SemverOlder(s, m) ==
    /\ VersionParse(s).ok
    /\ VersionParse(m).ok
    /\ LET a == VersionParse(s).v
           b == VersionParse(m).v
           ra == <<a.major, a.minor, a.patch>>
           rb == <<b.major, b.minor, b.patch>>
       IN  \/ \E i \in 1..3 :
                /\ ra[i] < rb[i]
                /\ \A j \in 1..(i - 1) : ra[j] = rb[j]
           \/ /\ ra = rb
              /\ a.pre # <<>>
              /\ (b.pre = <<>> \/ PrePrecedes(a.pre, b.pre))

\* C21: when the node reports version info whose node_version is older than
\* 2.0.0-beta.1 in semver order, pre-release tags included, wallet_command
\* returns 1 and the wallet command is not run; when the node reports no
\* version info the command is run and the exit code is 0 if it succeeds
\* and 1 if it fails.
C21_NodeVersionGate ==
    (last.op = "wallet_command" /\ last.res.asked) =>
        /\ (/\ args.version_info.some
            /\ SemverOlder(args.version_info.v, MIN_COMPAT_NODE_VERSION))
                => (last.res.code = 1 /\ ~last.res.ran)
        /\ ~args.version_info.some
                => /\ last.res.ran
                   /\ last.res.code = (IF args.command_ok THEN 0 ELSE 1)

\* C21's case: a node of version 2.0.0-beta.0 was turned away although the
\* command would have succeeded
C21_Witness ==
    /\ last.op = "wallet_command"
    /\ last.res.asked
    /\ args.version_info
         = Some(<<Num(2), Dot, Num(0), Dot, Num(0), Dash, beta, Dot, Num(0)>>)
    /\ args.command_ok
    /\ last.res.code = 1
    /\ ~last.res.ran

\* The action of the Buyer DAG for swap s when the node answers node
DagAction(s, node) ==
    CASE s.status = "Offered" -> "SendMessage(1)"
      [] s.status = "Locked" -> "SendMessage(2)"
      [] s.status = "InitRedeem" -> "ReceiveMessage"
      [] s.status = "Redeem" /\ ~s.redeem_confirmations.some -> "PublishTx"
      [] s.status = "Redeem" /\ s.redeem_confirmations.some ->
            IF node.kernel.some THEN "Complete" ELSE "ConfirmationRedeem"
      [] OTHER -> "None"

\* C22: for every status of a Buyer swap, required_action called with a node
\* that answers returns, without panicking, the action of the Buyer DAG:
\* SendMessage(1) in Offered, SendMessage(2) in Locked, ReceiveMessage in
\* InitRedeem, PublishTx in Redeem with redeem_confirmations unset, Complete
\* or ConfirmationRedeem in Redeem with redeem_confirmations set according
\* to whether the redeem kernel is on chain, and None in every other
\* status, Accepted included.
C22_ActionAdvisorTotal ==
    (/\ last.op = "required_action"
     /\ pre.role = "Buyer"
     /\ args.node.fail = "none")
        => /\ last.res.ok
           /\ last.res.reason = DagAction(pre, args.node)

(***************************************************************************)
(* Conversions of a slate to a wire version and back                       *)
(***************************************************************************)
SlateVersion == {"V4", "V3B", "V3", "V2"}

IntoVersion ==
    \E slate \in Slates, v \in SlateVersion, markers \in {"kept", "reset"} :
        LET vs == into_version(slate, v, markers)
        IN  /\ last' = [op |-> "into_version", res |-> vs,
                        back |-> SlateFrom(vs)]
            /\ args' = [slate |-> slate, version |-> v, markers |-> markers]
            /\ UNCHANGED <<swap, pre, env, file>>

SpecVersions == InitPutTx /\ [][IntoVersion]_vars

\* Two slates are equivalent when they differ in their version markers at
\* most
Equivalent(a, b) ==
    /\ a.amount = b.amount
    /\ a.payment_proof = b.payment_proof
    /\ a.ttl_cutoff_height = b.ttl_cutoff_height

C24_AcceptedSwapShape ==
    /\ (last.op = "accept_swap_offer" /\ last.res.ok) =>
            /\ swap.role = "Buyer"
            /\ swap.participant_id = 1
            /\ swap.status = "Offered"
            /\ swap.redeem_public.some
            /\ ~swap.adaptor_signature.some
            /\ ~swap.lock_confirmations.some
            /\ ~swap.redeem_confirmations.some
            /\ swap.lock_slate.lock_height = 0
    /\ (last.op \in BuyerApiOps /\ pre.role = "Buyer") =>
            /\ swap.role = pre.role
            /\ swap.participant_id = pre.participant_id
            /\ swap.primary_amount = pre.primary_amount
            /\ swap.redeem_public = pre.redeem_public
            /\ swap.lock_slate.lock_height = pre.lock_slate.lock_height

\* C24's case: the swap of an accepted offer went through init_redeem and
\* redeem and still has the fields accept_swap_offer gave it
C24_Witness ==
    /\ last.op = "redeem"
    /\ last.res.ok
    /\ pre.role = "Buyer"
    /\ swap.status = "Redeem"
    /\ swap.participant_id = 1
    /\ swap.redeem_public.some
    /\ swap.lock_slate.lock_height = 0

\* C25: in every state of a Buyer swap, status Completed implies that
\* redeem_confirmations is Some(n) with n >= 1, also after a
\* publish_transaction with retry = true made on the Completed swap.
C25_CompletedHasConfirmations ==
    (swap # NoSwap /\ swap.role = "Buyer" /\ swap.status = "Completed")
        => /\ swap.redeem_confirmations.some
           /\ swap.redeem_confirmations.v >= 1

\* C26: in every state of a Buyer swap, a status of InitRedeem, Redeem or
\* Completed implies that init_redeem has succeeded: adaptor_signature is
\* set and the redeem slate has two participant entries; message_sent does
\* not take a swap from Locked to InitRedeem when init_redeem was never
\* run on it.
C26_InitRedeemDone ==
    (/\ swap # NoSwap
     /\ swap.role = "Buyer"
     /\ swap.status \in {"InitRedeem", "Redeem", "Completed"})
        => /\ swap.adaptor_signature.some
           /\ Len(swap.redeem_slate.participant_data) = 2

\* The last call was a publish_transaction that handed the redeem
\* transaction to the node, whether or not the node took it
Submitted ==
    /\ last.op = "publish_transaction"
    /\ (last.res.ok \/ last.res.kind = "Node")

\* C27: a publish_transaction, with retry true or false, that submits the
\* redeem transaction of a Buyer swap to the node is made in status Redeem
\* or later, and one with retry false submits it only while
\* redeem_confirmations is unset, hence at most once with success.
C27_PostAfterFinalize ==
    (Submitted /\ pre.role = "Buyer") =>
        /\ Rank(pre.status) >= Rank("Redeem")
        /\ ~args.retry => ~pre.redeem_confirmations.some

\* C28: init_redeem is all-or-nothing: when it returns an error the swap is
\* as it was before the call, and no Buyer swap is left in status Locked
\* with two entries in the redeem slate and no adaptor signature.
C28_InitRedeemAllOrNothing ==
    /\ (last.op = "init_redeem" /\ pre.role = "Buyer" /\ ~last.res.ok)
            => swap = pre
    /\ (swap # NoSwap /\ swap.role = "Buyer" /\ swap.status = "Locked")
            => ~(/\ Len(swap.redeem_slate.participant_data) = 2
                 /\ ~swap.adaptor_signature.some)

====
